---- MODULE Spec2Model ----
(***************************************************************************)
(* Statement parsing and aggregation engine of the Financial Statement     *)
(* Analyzer (api/services/transaction_parser.py, calculator.py,            *)
(* llm_processor.py, api/index.py).                                        *)
(*                                                                         *)
(* A statement text is a sequence of lines (text.split('\n')), a line is a *)
(* sequence of tokens separated by blanks.  A token is a date, a printed   *)
(* amount (value in the smallest money unit, with its Cr/Dr suffix), a     *)
(* bare integer or a word/phrase of a fixed vocabulary.  The regular       *)
(* expressions of the parser are modelled by what they match on tokens:    *)
(* DATE_PATTERN matches date tokens; AMOUNT_PATTERN matches amount tokens  *)
(* and also the "dd.mm" prefix of a date printed with dots.  Vocabulary    *)
(* words placed after an amount never begin with "cr"/"dr".                *)
(***************************************************************************)
EXTENDS Integers, Sequences, FiniteSets, TLC

\* Python None for an optional money value (money values are >= 0).
None == -1

\* ------------------------------------------------------------------------
\* Bounds of the model
\* ------------------------------------------------------------------------
MaxAmt == 2        \* money values range over 0..MaxAmt
MaxTxnLines == 2   \* transaction-shaped lines in a statement text
MaxCalcTxns == 3   \* transactions handed to calculate_financials directly

\* ------------------------------------------------------------------------
\* Tokens
\* ------------------------------------------------------------------------
Tok(k, v, s, w) == [k |-> k, v |-> v, s |-> s, w |-> w]
\* a date; sep is the separator it is printed with, dm the value of its
\* "dd.mm" digits read as an amount
DateTok(sep, dm) == Tok("date", dm, sep, "")
\* a printed amount with an optional Cr/Dr suffix ("" when absent)
AmtTok(v, suf) == Tok("amt", v, suf, "")
IntTok(v) == Tok("int", v, "", "")
WordTok(w) == Tok("word", 0, "", w)

\* printed widths used for len(stripped)
DateWidth == 10
AmountWidth == 8
SuffixWidth == 3
IntWidth == 1

TokWidth(t) ==
  CASE t.k = "date" -> DateWidth
    [] t.k = "amt"  -> AmountWidth + (IF t.s = "" THEN 0 ELSE SuffixWidth)
    [] t.k = "int"  -> IntWidth
    [] OTHER        -> Len(t.w)

RECURSIVE SumWidths(_)
SumWidths(line) ==
  IF line = <<>> THEN 0 ELSE TokWidth(Head(line)) + 1 + SumWidths(Tail(line))

\* len(line.strip()): the tokens joined by single blanks
LineLen(line) == IF line = <<>> THEN 0 ELSE SumWidths(line) - 1

\* ------------------------------------------------------------------------
\* Vocabulary: which keywords of the parser a (lower-cased) word contains
\* ------------------------------------------------------------------------
always_skip_patterns ==
  {"a/c open date", "open date", "expected amb", "joint holders",
   "account status", "account number", "cust id", "pr.code", "br.code",
   "od limit", "limit :", "currency :", "account open", "not applicable"}

skip_keywords ==
  {"page", "account", "a/c", "branch", "address", "city", "state", "phone",
   "email", "ifsc", "micr", "nomination", "customer", "statement",
   "generated", "registered", "disclaimer", "contents", "gstin",
   "linked", "deposits", "loan", "locker", "facility", "scheme",
   "no records", "si ", "sl ", "particulars", "narration", "chq",
   "withdrawal", "deposit", "balance", "date", "ref", "details of",
   "name &", "summary", "total", "opening", "closing", "end of"}

\* keywords (of the two lists above, plus "debit"/"credit") that occur in w
KeywordsIn(w) ==
  CASE w = "Opening Balance"   -> {"opening", "balance"}
    [] w = "Closing Balance"   -> {"closing", "balance"}
    [] w = "Total Debits"      -> {"total", "debit"}
    [] w = "Total Credits"     -> {"total", "credit"}
    [] w = "SALARY CREDIT"     -> {"credit"}
    [] w = "Page"              -> {"page"}
    [] w = "Account Number"    -> {"account number", "account"}
    [] w = "UPI REF"           -> {"ref"}
    [] w = "UPI BALANCE ENQ"   -> {"balance"}
    [] w = "Statement Summary" -> {"state", "statement", "summary"}
    [] w = "Account Summary"   -> {"account", "summary"}
    [] OTHER                   -> {}

\* skip keywords that w starts with
KeywordsAtStart(w) ==
  CASE w = "Opening Balance"   -> {"opening"}
    [] w = "Closing Balance"   -> {"closing"}
    [] w = "Total Debits"      -> {"total"}
    [] w = "Total Credits"     -> {"total"}
    [] w = "Page"              -> {"page"}
    [] w = "Account Number"    -> {"account"}
    [] w = "Statement Summary" -> {"state", "statement"}
    [] w = "Account Summary"   -> {"account"}
    [] OTHER                   -> {}

\* 'kw in line.lower()'
Contains(line, kw) ==
  \E i \in 1..Len(line) : line[i].k = "word" /\ kw \in KeywordsIn(line[i].w)

\* 'stripped.startswith(kw)'
StartsWith(line, kw) ==
  /\ line # <<>>
  /\ line[1].k = "word"
  /\ kw \in KeywordsAtStart(line[1].w)

\* ------------------------------------------------------------------------
\* Pattern recognizers
\* ------------------------------------------------------------------------
\* DATE_PATTERN.search(line)
HasDate(line) == \E i \in 1..Len(line) : line[i].k = "date"

\* a token in which AMOUNT_PATTERN finds a match: an amount, or a date
\* printed with dots ("02.11.2025" holds the match "02.11")
IsAmountMatch(t) == t.k = "amt" \/ (t.k = "date" /\ t.s = ".")

\* AMOUNT_PATTERN.search(line)
HasAmountMatch(line) == \E i \in 1..Len(line) : IsAmountMatch(line[i])

is_potential_transaction_line(line) ==
  IF line = <<>> \/ LineLen(line) < 10
  THEN FALSE
  ELSE HasDate(line) /\ HasAmountMatch(line)

\* the (value, suffix) pair of one AMOUNT_PATTERN match; the digits of a
\* dotted date are followed by ".", never by a suffix
MatchOf(t) == [v |-> t.v, s |-> IF t.k = "amt" THEN t.s ELSE ""]

RECURSIVE AmountMatches(_)
AmountMatches(line) ==
  IF line = <<>> THEN <<>>
  ELSE (IF IsAmountMatch(Head(line)) THEN <<MatchOf(Head(line))>> ELSE <<>>)
       \o AmountMatches(Tail(line))

IsPositive(m) == m.v > 0

\* extract_all_amounts: the matches left to right, zero amounts ignored
extract_all_amounts(line) == SelectSeq(AmountMatches(line), IsPositive)

\* extract_date + normalize_date: the first date, separators replaced by "/"
IsDateTok(t) == t.k = "date"
normalize_date(t) == DateTok("/", t.v)
extract_date(line) == SelectSeq(line, IsDateTok)

\* ------------------------------------------------------------------------
\* Line classification
\* ------------------------------------------------------------------------
\* ^\d+\s*(of\s*\d+)?$
IsJustNumbers(line) ==
  \/ Len(line) = 1 /\ line[1].k = "int"
  \/ Len(line) = 3 /\ line[1].k = "int" /\ line[2] = WordTok("of")
                   /\ line[3].k = "int"

\* ^[=\-_*#]+$
IsJustSpecial(line) == Len(line) = 1 /\ line[1] = WordTok("----")

\* a variant in which a short keyword line is noise whatever it carries
is_header_or_footer_ShortIsNoise(line) ==
  IF line = <<>> THEN TRUE
  ELSE IF \E p \in always_skip_patterns : Contains(line, p) THEN TRUE
  ELSE IF /\ \E kw \in skip_keywords :
                StartsWith(line, kw) \/ Contains(line, kw)
          /\ (~HasAmountMatch(line) \/ LineLen(line) < 50)
       THEN TRUE
  ELSE IF IsJustNumbers(line) THEN TRUE
  ELSE IF IsJustSpecial(line) THEN TRUE
  ELSE FALSE

is_header_or_footer(line) ==
  IF line = <<>> THEN TRUE
  ELSE IF \E p \in always_skip_patterns : Contains(line, p) THEN TRUE
  ELSE IF /\ \E kw \in skip_keywords :
                \/ StartsWith(line, kw)
                \/ (Contains(line, kw) /\ LineLen(line) < 50)
          /\ \/ ~HasAmountMatch(line)
             \/ Contains(line, "total")
             \/ Contains(line, "balance")
       THEN TRUE
  ELSE IF IsJustNumbers(line) THEN TRUE
  ELSE IF IsJustSpecial(line) THEN TRUE
  ELSE FALSE

\* find_transaction_lines: the (line number, line) pairs of the candidates
RECURSIVE FindFrom(_, _)
FindFrom(lines, i) ==
  IF i > Len(lines) THEN <<>>
  ELSE (IF /\ lines[i] # <<>>
           /\ ~is_header_or_footer(lines[i])
           /\ is_potential_transaction_line(lines[i])
        THEN <<[num |-> i, line |-> lines[i]]>> ELSE <<>>)
       \o FindFrom(lines, i + 1)

find_transaction_lines(lines) == FindFrom(lines, 1)

\* parse_transactions, lines 425-430: the relaxed filter used when the
\* classifier found no candidate
RECURSIVE RelaxedFrom(_, _)
RelaxedFrom(lines, i) ==
  IF i > Len(lines) THEN <<>>
  ELSE (IF HasDate(lines[i]) /\ HasAmountMatch(lines[i])
        THEN <<[num |-> i, line |-> lines[i]]>> ELSE <<>>)
       \o RelaxedFrom(lines, i + 1)

CandidateLines(lines) ==
  IF find_transaction_lines(lines) # <<>>
  THEN find_transaction_lines(lines)
  ELSE RelaxedFrom(lines, 1)

\* ------------------------------------------------------------------------
\* Statement summary extraction
\* ------------------------------------------------------------------------
\* the four locals of extract_statement_summary before the scan
NoFields ==
  [opening_balance |-> None, closing_balance |-> None,
   total_debits |-> None, total_credits |-> None]

\* lines 134-140: total debits (and an opening balance on the same line)
ScanTotalDebits(st, line) ==
  LET amounts == extract_all_amounts(line) IN
  IF /\ st.total_debits = None
     /\ Contains(line, "total") /\ Contains(line, "debit")
     /\ amounts # <<>>
  THEN [st EXCEPT !.total_debits = amounts[1].v,
                  !.opening_balance =
                     IF /\ st.opening_balance = None
                        /\ Contains(line, "opening")
                        /\ Len(amounts) >= 2
                     THEN amounts[2].v ELSE @]
  ELSE st

\* lines 143-149: total credits (and a closing balance on the same line)
ScanTotalCredits(st, line) ==
  LET amounts == extract_all_amounts(line) IN
  IF /\ st.total_credits = None
     /\ Contains(line, "total") /\ Contains(line, "credit")
     /\ amounts # <<>>
  THEN [st EXCEPT !.total_credits = amounts[1].v,
                  !.closing_balance =
                     IF /\ st.closing_balance = None
                        /\ Contains(line, "closing")
                        /\ Len(amounts) >= 2
                     THEN amounts[2].v ELSE @]
  ELSE st

\* a variant that takes every opening-balance line, found before or not
ScanOpening_Overwrite(st, lines, i) ==
  LET line == lines[i]
      amounts == extract_all_amounts(line)
      following == IF i < Len(lines) THEN extract_all_amounts(lines[i + 1])
                   ELSE <<>>
  IN
  IF /\ Contains(line, "opening") /\ Contains(line, "balance")
     /\ ~Contains(line, "total")
  THEN IF amounts # <<>>
       THEN [st EXCEPT !.opening_balance = amounts[Len(amounts)].v]
       ELSE IF following # <<>>
       THEN [st EXCEPT !.opening_balance = following[1].v]
       ELSE st
  ELSE st

\* lines 152-161: opening balance, last amount of the keyword line or the
\* first amount of the following line
ScanOpening(st, lines, i) ==
  LET line == lines[i]
      amounts == extract_all_amounts(line)
      following == IF i < Len(lines) THEN extract_all_amounts(lines[i + 1])
                   ELSE <<>>
  IN
  IF /\ st.opening_balance = None
     /\ Contains(line, "opening") /\ Contains(line, "balance")
     /\ ~Contains(line, "total")
  THEN IF amounts # <<>>
       THEN [st EXCEPT !.opening_balance = amounts[Len(amounts)].v]
       ELSE IF following # <<>>
       THEN [st EXCEPT !.opening_balance = following[1].v]
       ELSE st
  ELSE st

\* lines 164-173: closing balance, last amount of the keyword line or of
\* the following line
ScanClosing(st, lines, i) ==
  LET line == lines[i]
      amounts == extract_all_amounts(line)
      following == IF i < Len(lines) THEN extract_all_amounts(lines[i + 1])
                   ELSE <<>>
  IN
  IF /\ st.closing_balance = None
     /\ Contains(line, "closing") /\ Contains(line, "balance")
     /\ ~Contains(line, "total")
  THEN IF amounts # <<>>
       THEN [st EXCEPT !.closing_balance = amounts[Len(amounts)].v]
       ELSE IF following # <<>>
       THEN [st EXCEPT !.closing_balance = following[Len(following)].v]
       ELSE st
  ELSE st

\* one iteration of the loop over the lines (lines 130-173)
ScanLine(st, lines, i) ==
  ScanClosing(
    ScanOpening(
      ScanTotalCredits(ScanTotalDebits(st, lines[i]), lines[i]),
      lines, i),
    lines, i)

\* the text as one token stream (the fallback patterns run over the whole
\* text and \s matches line breaks)
RECURSIVE Flatten(_)
Flatten(lines) ==
  IF lines = <<>> THEN <<>> ELSE Head(lines) \o Flatten(Tail(lines))

\* a token at which the anchored amount sub-pattern
\* \d{1,3}(?:,\d{2,3})*\.\d{2} of the fallbacks can start matching
IsAnchoredAmount(t) == IsAmountMatch(t) /\ t.w # "plain"

\* the keyword phrase a word ends with
PhraseAtEnd(w) ==
  CASE w = "Opening Balance" -> "opening balance"
    [] w = "Closing Balance" -> "closing balance"
    [] OTHER -> ""

\* positions where "<phrase> [:-]? <amount>" matches
KeywordAmountAt(toks, phrase) ==
  {i \in 1..(Len(toks) - 1) :
     /\ toks[i].k = "word" /\ PhraseAtEnd(toks[i].w) = phrase
     /\ IsAnchoredAmount(toks[i + 1])}

Min(S) == CHOOSE x \in S : \A y \in S : x <= y

\* re.search(...).group(1) parsed, or None when there is no match
KeywordAmount(toks, phrase) ==
  IF KeywordAmountAt(toks, phrase) = {} THEN None
  ELSE toks[Min(KeywordAmountAt(toks, phrase)) + 1].v

\* lines 177-185: keyword-colon-amount fallback
FallbackKeyword(st, toks) ==
  [st EXCEPT
     !.opening_balance =
        IF @ = None THEN KeywordAmount(toks, "opening balance") ELSE @,
     !.closing_balance =
        IF @ = None THEN KeywordAmount(toks, "closing balance") ELSE @]

\* positions where amount, integer, integer, amount, amount, amount match
HdfcAt(toks) ==
  {i \in 1..(Len(toks) - 5) :
     /\ toks[i].k = "amt" /\ toks[i].s = "" /\ toks[i].w # "plain"
     /\ toks[i + 1].k = "int"
     /\ toks[i + 2].k = "int"
     /\ toks[i + 3].k = "amt" /\ toks[i + 3].s = "" /\ toks[i + 3].w # "plain"
     /\ toks[i + 4].k = "amt" /\ toks[i + 4].s = "" /\ toks[i + 4].w # "plain"
     /\ IsAnchoredAmount(toks[i + 5])}

\* lines 187-207: six-field structured fallback
FallbackHdfc(st, toks) ==
  IF HdfcAt(toks) = {} THEN st
  ELSE LET p == Min(HdfcAt(toks)) IN
       [st EXCEPT
          !.opening_balance = IF @ = None THEN toks[p].v ELSE @,
          !.total_debits    = IF @ = None THEN toks[p + 3].v ELSE @,
          !.total_credits   = IF @ = None THEN toks[p + 4].v ELSE @,
          !.closing_balance = IF @ = None THEN toks[p + 5].v ELSE @]

\* Optional[StatementSummary]: none = TRUE stands for the returned None
MkSummary(none, st) ==
  [none |-> none,
   opening_balance |-> st.opening_balance,
   closing_balance |-> st.closing_balance,
   total_debits |-> st.total_debits,
   total_credits |-> st.total_credits]

\* lines 209-217
SummaryOf(st) ==
  IF st.opening_balance # None \/ st.closing_balance # None
  THEN MkSummary(FALSE, st)
  ELSE MkSummary(TRUE, NoFields)

\* ------------------------------------------------------------------------
\* Transaction line parsing
\* ------------------------------------------------------------------------
IsDescTok(t) == t.k = "word" \/ t.k = "int"

\* lines 360-373: the line without its date and amounts, a leading serial
\* number removed, blanks collapsed
DescriptionOf(line) ==
  LET kept == SelectSeq(line, IsDescTok) IN
  IF line[1].k = "int" /\ Len(line) > 1 THEN Tail(kept) ELSE kept

\* lines 375-379: a short description takes the previous line as prefix
WithPrevLine(description, prev_line) ==
  IF /\ LineLen(description) < 3
     /\ prev_line # <<>>
     /\ ~is_header_or_footer(prev_line)
     /\ ~is_potential_transaction_line(prev_line)
  THEN prev_line \o description
  ELSE description

\* lines 336-358: direction from the column position or the Cr/Dr suffix
LineType(amounts) ==
  LET n == Len(amounts) IN
  IF n >= 3
  THEN IF amounts[n - 2].v > 0 /\ amounts[n - 1].v = 0 THEN "debit"
       ELSE IF amounts[n - 1].v > 0 /\ amounts[n - 2].v = 0 THEN "credit"
       ELSE "unknown"
  ELSE IF n = 2 /\ amounts[1].s # ""
  THEN IF amounts[1].s = "CR" THEN "credit" ELSE "debit"
  ELSE "unknown"

\* lines 331-358: the transaction amount read from the line, None when the
\* line holds a balance only
LineAmount(amounts) ==
  LET n == Len(amounts) IN
  IF n >= 3
  THEN IF amounts[n - 2].v > 0 /\ amounts[n - 1].v = 0 THEN amounts[n - 2].v
       ELSE IF amounts[n - 1].v > 0 /\ amounts[n - 2].v = 0
       THEN amounts[n - 1].v
       ELSE amounts[n - 1].v
  ELSE IF n = 2 THEN amounts[1].v
  ELSE None

\* parse_transaction_line: <<>> for None, else a one-element sequence
parse_transaction_line(line, prev_line) ==
  LET amounts == extract_all_amounts(line) IN
  IF line = <<>> \/ extract_date(line) = <<>> \/ amounts = <<>>
  THEN <<>>
  ELSE <<[date |-> normalize_date(Head(extract_date(line))),
          description |-> WithPrevLine(DescriptionOf(line), prev_line),
          amount |-> LineAmount(amounts),
          closing_balance |-> amounts[Len(amounts)].v,
          type |-> LineType(amounts)]>>

\* ------------------------------------------------------------------------
\* Balance-delta pass
\* ------------------------------------------------------------------------
\* a variant that recognises increases only
determine_transaction_type_CreditOnly(current_balance, previous_balance) ==
  IF current_balance > previous_balance THEN "credit" ELSE "unknown"

determine_transaction_type(current_balance, previous_balance) ==
  IF current_balance > previous_balance THEN "credit"
  ELSE IF current_balance < previous_balance THEN "debit"
  ELSE "unknown"

Abs(x) == IF x < 0 THEN -x ELSE x

\* a variant without abs()
DeltaAmount_Signed(current_balance, previous_balance) ==
  current_balance - previous_balance

\* line 471
DeltaAmount(current_balance, previous_balance) ==
  Abs(current_balance - previous_balance)

\* lines 464-467
ResolvedType(txn, prev) ==
  IF txn.type = "unknown" /\ prev # None
  THEN determine_transaction_type(txn.closing_balance, prev)
  ELSE txn.type

\* lines 470-471: the raw transaction after the in-place amount update
ResolvedRaw(txn, prev) ==
  IF txn.amount = None /\ prev # None
  THEN [txn EXCEPT !.amount = DeltaAmount(txn.closing_balance, prev)]
  ELSE txn

\* category values of a transaction dict: the key is absent, or holds None
Missing == "<missing>"
NoneStr == "<None>"

\* a variant that returns an unresolved amount as it is (None)
FinalTxn_KeepNone(txn, prev) ==
  [date |-> txn.date,
   description |-> txn.description,
   reference |-> "",
   amount |-> ResolvedRaw(txn, prev).amount,
   closing_balance |-> txn.closing_balance,
   type |-> ResolvedType(txn, prev),
   category |-> NoneStr]

\* lines 473-481
FinalTxn(txn, prev) ==
  [date |-> txn.date,
   description |-> txn.description,
   reference |-> "",
   amount |-> IF ResolvedRaw(txn, prev).amount = None THEN 0
              ELSE ResolvedRaw(txn, prev).amount,
   closing_balance |-> txn.closing_balance,
   type |-> ResolvedType(txn, prev),
   category |-> NoneStr]

\* a variant that prefers the closing balance of the summary
ParseResult_SummaryClosingFirst(sm, txns) ==
  [is_financial_statement |-> Len(txns) > 0,
   error |-> "",
   opening_balance |-> IF sm.none THEN None ELSE sm.opening_balance,
   closing_balance |->
      IF ~sm.none /\ sm.closing_balance # None THEN sm.closing_balance
      ELSE IF txns # <<>> THEN txns[Len(txns)].closing_balance
      ELSE None,
   total_debits |-> IF sm.none THEN None ELSE sm.total_debits,
   total_credits |-> IF sm.none THEN None ELSE sm.total_credits,
   transactions |-> txns]

\* a variant that also takes a found summary for a financial statement
ParseResult_SummaryCounts(sm, txns) ==
  [is_financial_statement |-> Len(txns) > 0 \/ ~sm.none,
   error |-> "",
   opening_balance |-> IF sm.none THEN None ELSE sm.opening_balance,
   closing_balance |->
      IF txns # <<>> THEN txns[Len(txns)].closing_balance
      ELSE IF sm.none THEN None ELSE sm.closing_balance,
   total_debits |-> IF sm.none THEN None ELSE sm.total_debits,
   total_credits |-> IF sm.none THEN None ELSE sm.total_credits,
   transactions |-> txns]

\* lines 485-499: the dict returned by parse_transactions (error = "" when
\* the dict has no "error" key)
ParseResult(sm, txns) ==
  [is_financial_statement |-> Len(txns) > 0,
   error |-> "",
   opening_balance |-> IF sm.none THEN None ELSE sm.opening_balance,
   closing_balance |->
      IF txns # <<>> THEN txns[Len(txns)].closing_balance
      ELSE IF sm.none THEN None ELSE sm.closing_balance,
   total_debits |-> IF sm.none THEN None ELSE sm.total_debits,
   total_credits |-> IF sm.none THEN None ELSE sm.total_credits,
   transactions |-> txns]

\* ------------------------------------------------------------------------
\* Financial aggregation (calculator.py)
\* ------------------------------------------------------------------------
\* an amount value float() cannot convert (e.g. the string "abc")
NonNumeric == -2

\* float(x) succeeds: neither None (TypeError) nor a non-numeric string
IsNumeric(x) == x >= 0

\* str.lower() on the type and category strings of the model
Lower(str) ==
  CASE str = "CREDIT" -> "credit"
    [] str = "DEBIT"  -> "debit"
    [] str = "FOOD"   -> "food"
    [] OTHER -> str

\* round(x, 2): money values are whole numbers of the smallest unit (0.01)
Round2(x) == x

\* a breakdown dict: its items in insertion order
BreakdownKeys(bd) == {bd[i].k : i \in 1..Len(bd)}

\* a variant that assigns instead of accumulating
AddToBreakdown_Assign(bd, category, amount) ==
  IF category \in BreakdownKeys(bd)
  THEN [i \in 1..Len(bd) |->
          IF bd[i].k = category THEN [bd[i] EXCEPT !.v = amount]
          ELSE bd[i]]
  ELSE Append(bd, [k |-> category, v |-> amount])

\* lines 80-82 and 86-88
AddToBreakdown(bd, category, amount) ==
  IF category \in BreakdownKeys(bd)
  THEN [i \in 1..Len(bd) |->
          IF bd[i].k = category THEN [bd[i] EXCEPT !.v = @ + amount]
          ELSE bd[i]]
  ELSE Append(bd, [k |-> category, v |-> amount])

NewTotals ==
  [total_income |-> 0, total_expenses |-> 0,
   category_breakdown |-> <<>>, income_breakdown |-> <<>>,
   raised |-> FALSE]

\* a variant in which float() failing is not caught as a skip: the value is
\* aggregated like any other
AddTransaction_NoSkip(acc, txn) ==
  IF acc.raised THEN acc
  ELSE IF txn.type = NoneStr \/ txn.category = NoneStr
  THEN [acc EXCEPT !.raised = TRUE]
  ELSE LET amount == IF txn.amount < 0 THEN -txn.amount ELSE txn.amount
           txn_type == Lower(IF txn.type = Missing THEN "debit" ELSE txn.type)
           category == Lower(IF txn.category = Missing THEN "other"
                             ELSE txn.category)
       IN IF txn_type = "credit"
          THEN [acc EXCEPT
                  !.total_income = @ + amount,
                  !.income_breakdown = AddToBreakdown(@, category, amount)]
          ELSE [acc EXCEPT
                  !.total_expenses = @ + amount,
                  !.category_breakdown = AddToBreakdown(@, category, amount)]

\* lines 71-92, one iteration.  float() failing (ValueError, TypeError) is
\* caught and the transaction skipped; .lower() on None raises
\* AttributeError, which is not caught.
AddTransaction(acc, txn) ==
  IF acc.raised THEN acc
  ELSE IF ~IsNumeric(txn.amount) THEN acc
  ELSE IF txn.type = NoneStr \/ txn.category = NoneStr
  THEN [acc EXCEPT !.raised = TRUE]
  ELSE LET amount == Abs(txn.amount)
           txn_type == Lower(IF txn.type = Missing THEN "debit" ELSE txn.type)
           category == Lower(IF txn.category = Missing THEN "other"
                             ELSE txn.category)
       IN IF txn_type = "credit"
          THEN [acc EXCEPT
                  !.total_income = @ + amount,
                  !.income_breakdown = AddToBreakdown(@, category, amount)]
          ELSE [acc EXCEPT
                  !.total_expenses = @ + amount,
                  !.category_breakdown = AddToBreakdown(@, category, amount)]

RECURSIVE Totals(_, _)
Totals(acc, txns) ==
  IF txns = <<>> THEN acc
  ELSE Totals(AddTransaction(acc, Head(txns)), Tail(txns))

\* lines 97-98
RoundValues(bd) ==
  [i \in 1..Len(bd) |-> [bd[i] EXCEPT !.v = Round2(@)]]

RECURSIVE InsertDescending_Strict(_, _)
\* a variant that places an item before the items of equal value
InsertDescending_Strict(sorted, e) ==
  IF sorted = <<>> THEN <<e>>
  ELSE IF Head(sorted).v > e.v
  THEN <<Head(sorted)>> \o InsertDescending_Strict(Tail(sorted), e)
  ELSE <<e>> \o sorted

RECURSIVE InsertDescending(_, _)
InsertDescending(sorted, e) ==
  IF sorted = <<>> THEN <<e>>
  ELSE IF Head(sorted).v >= e.v
  THEN <<Head(sorted)>> \o InsertDescending(Tail(sorted), e)
  ELSE <<e>> \o sorted

RECURSIVE SortInto(_, _)
SortInto(sorted, bd) ==
  IF bd = <<>> THEN sorted
  ELSE SortInto(InsertDescending(sorted, Head(bd)), Tail(bd))

\* lines 101-106: sorted(items, key=value, reverse=True), a stable sort
SortDescending(bd) == SortInto(<<>>, bd)

NotStatementError == "The uploaded document is not a valid bank statement."

AllKeys ==
  {"success", "openingBalance", "closingBalance", "totalIncome",
   "totalExpenses", "netChange", "transactions", "categoryBreakdown",
   "incomeBreakdown", "transactionCount"}

\* the value of calculate_financials: outcome "returned" with the dict
\* (keys = the keys the dict holds) or "raised" with the exception in error
MkResult(outcome, keys, success, error, ob, cb, ti, te, txns, catb, incb) ==
  [outcome |-> outcome, keys |-> keys, success |-> success, error |-> error,
   openingBalance |-> ob, closingBalance |-> cb,
   totalIncome |-> ti, totalExpenses |-> te, netChange |-> Round2(ti - te),
   transactions |-> txns, categoryBreakdown |-> catb,
   incomeBreakdown |-> incb, transactionCount |-> Len(txns)]

NoResult == MkResult("none", {}, FALSE, "", 0, 0, 0, 0, <<>>, <<>>, <<>>)

FailureResult(error) ==
  MkResult("returned", {"success", "error"}, FALSE, error,
           0, 0, 0, 0, <<>>, <<>>, <<>>)

\* lines 47-63
EmptyResult(g) ==
  MkResult("returned", AllKeys \ {"incomeBreakdown"}, TRUE, "",
           IF g.opening_balance # None THEN g.opening_balance ELSE 0,
           IF g.closing_balance # None THEN g.closing_balance ELSE 0,
           0, 0, <<>>, <<>>, <<>>)

\* lines 94-142
FullResult(g, acc) ==
  LET total_income == Round2(acc.total_income)
      total_expenses == Round2(acc.total_expenses)
      opening_balance == IF IsNumeric(g.opening_balance)
                         THEN Round2(g.opening_balance) ELSE None
      given_closing == IF IsNumeric(g.closing_balance)
                       THEN Round2(g.closing_balance) ELSE None
      \* lines 126-127 and 134; the derived balance may be negative
      closingBalance ==
        IF opening_balance # None /\ given_closing = None
        THEN Round2(opening_balance + total_income - total_expenses)
        ELSE IF given_closing # None THEN given_closing ELSE 0
  IN MkResult("returned", AllKeys, TRUE, "",
              IF opening_balance # None THEN opening_balance ELSE 0,
              closingBalance,
              total_income, total_expenses, g.transactions,
              SortDescending(RoundValues(acc.category_breakdown)),
              SortDescending(RoundValues(acc.income_breakdown)))

calculate_financials(g) ==
  IF ~g.is_financial_statement THEN FailureResult(NotStatementError)
  ELSE IF g.error # "" THEN FailureResult(g.error)
  ELSE IF g.transactions = <<>> THEN EmptyResult(g)
  ELSE IF Totals(NewTotals, g.transactions).raised
  THEN MkResult("raised", {}, FALSE, "AttributeError",
                0, 0, 0, 0, <<>>, <<>>, <<>>)
  ELSE FullResult(g, Totals(NewTotals, g.transactions))

\* ------------------------------------------------------------------------
\* LLM extraction and the /api/analyze handler
\* ------------------------------------------------------------------------
NoDict ==
  [is_financial_statement |-> FALSE, error |-> "",
   opening_balance |-> None, closing_balance |-> None,
   total_debits |-> None, total_credits |-> None, transactions |-> <<>>]

\* the dict returned on refusal, unparsable or truncated response
LLMErrorDict(error) == [NoDict EXCEPT !.error = error]

\* extract_financial_data: what the OpenAI call did (outcome) and, when it
\* answered, the parsed FinancialExtraction.  raised = TRUE stands for the
\* re-raised Exception("OpenAI API error: ...").
extract_financial_data(call) ==
  CASE call.outcome = "api_error" ->
         [raised |-> TRUE, value |-> NoDict]
    [] call.outcome = "refusal" ->
         [raised |-> FALSE,
          value |-> LLMErrorDict("Model refused to process")]
    [] call.outcome = "unparsable" ->
         [raised |-> FALSE, value |-> LLMErrorDict("Failed to parse response")]
    [] call.outcome = "truncated" ->
         [raised |-> FALSE,
          value |-> LLMErrorDict("Document too large to process.")]
    [] OTHER ->
         [raised |-> FALSE,
          value |-> [NoDict EXCEPT
             !.is_financial_statement = call.extraction.is_financial_statement,
             !.opening_balance = call.extraction.opening_balance,
             !.closing_balance = call.extraction.closing_balance,
             !.transactions = call.extraction.transactions]]

MkResponse(kind, status, success, error, has_data, data) ==
  [kind |-> kind, status |-> status, success |-> success, error |-> error,
   has_data |-> has_data, data |-> data]

NoResponse == MkResponse("none", 0, FALSE, "", FALSE, NoResult)

\* analyze_statement, steps 3-5 (index.py lines 173-210)
analyze_statement(extracted) ==
  IF extracted.raised
  THEN MkResponse("http_error", 500, FALSE, "Processing error", FALSE, NoResult)
  ELSE IF ~extracted.value.is_financial_statement
  THEN MkResponse("json", 200, FALSE, NotStatementError, FALSE, NoResult)
  ELSE LET result == calculate_financials(extracted.value) IN
       IF result.outcome = "raised"
       THEN MkResponse("http_error", 500, FALSE, "Processing error",
                       FALSE, NoResult)
       ELSE IF ~result.success
       THEN MkResponse("json", 200, FALSE, result.error, FALSE, NoResult)
       ELSE MkResponse("json", 200, TRUE, "", TRUE, result)

\* ------------------------------------------------------------------------
\* State
\* ------------------------------------------------------------------------
VARIABLES
  text,              \* the lines of the statement text
  pc,                \* position in the pipeline
  idx,               \* index of the running loop
  scan,              \* locals of extract_statement_summary
  summary,           \* its return value
  transaction_lines, \* candidate lines of parse_transactions
  raw_transactions,  \* parsed candidate lines
  previous_balance,  \* carried by the balance-delta pass
  transactions,      \* finalized transactions
  gpt_response,      \* the dict handed to calculate_financials
  result,            \* the value of calculate_financials
  llm,               \* what the OpenAI call does in this request
  extracted,         \* the value of extract_financial_data
  response,          \* the response of /api/analyze
  header_or_footer   \* the value of is_header_or_footer for the line at hand

vars == <<text, pc, idx, scan, summary, transaction_lines, raw_transactions,
          previous_balance, transactions, gpt_response, result, llm,
          extracted, response, header_or_footer>>

NoCall ==
  [outcome |-> "none",
   extraction |-> [is_financial_statement |-> FALSE, opening_balance |-> None,
                   closing_balance |-> None, transactions |-> <<>>]]

NoExtracted == [raised |-> FALSE, value |-> NoDict]

\* ------------------------------------------------------------------------
\* Statement texts of the parser specification
\* ------------------------------------------------------------------------
Values == 1..MaxAmt

Narration == WordTok("ATM WDL")

\* date, narration, trailing balance
BalanceOnlyLines ==
  {<<DateTok("/", 1), Narration, AmtTok(b, "")>> : b \in Values}
  \cup {<<DateTok(".", 1), Narration, AmtTok(MaxAmt, "")>>}
  \cup {<<DateTok("/", 1), Narration, AmtTok(0, "")>>}

\* date, narration, amount with optional suffix, trailing balance
AmountLines ==
  {<<DateTok("/", 1), Narration, AmtTok(a, s), AmtTok(b, "")>> :
     a \in Values, s \in {"CR", "DR"}, b \in {1, MaxAmt}}
  \cup {<<DateTok("/", 1), Narration, AmtTok(1, ""), AmtTok(b, "")>> :
     b \in {1, MaxAmt}}
  \cup {<<DateTok(".", 1), Narration, AmtTok(1, s), AmtTok(1, "")>> :
     s \in {"CR", "DR"}}

\* date, narration, withdrawal column, deposit column, trailing balance
ColumnLines ==
  {<<DateTok("/", 1), Narration, AmtTok(a, ""), AmtTok(0, ""), AmtTok(b, "")>> :
     a \in Values, b \in {1}}
  \cup {<<DateTok("/", 1), Narration, AmtTok(0, ""), AmtTok(a, ""),
          AmtTok(MaxAmt, "")>> :
     a \in Values}
  \cup {<<DateTok("/", 1), Narration, AmtTok(1, ""), AmtTok(1, ""), AmtTok(b, "")>> :
     b \in {1, MaxAmt}}
  \cup {<<DateTok("/", 1), Narration, AmtTok(0, ""), AmtTok(0, ""), AmtTok(1, "")>>}

TxnLines == BalanceOnlyLines \cup AmountLines \cup ColumnLines

RECURSIVE SeqsUpTo(_, _)
SeqsUpTo(S, n) ==
  IF n = 0 THEN {<<>>}
  ELSE SeqsUpTo(S, n - 1)
       \cup {Append(q, x) : q \in SeqsUpTo(S, n - 1), x \in S}

\* an optional "Opening Balance <amount>" line, then transaction lines
OpeningLines ==
  {<<>>}
  \cup {<<<<WordTok("Opening Balance"), AmtTok(p, "")>>>> : p \in {1, MaxAmt}}

Texts ==
  {IF head \o body = <<>> THEN <<<<>>>> ELSE head \o body :
     head \in OpeningLines, body \in SeqsUpTo(TxnLines, MaxTxnLines)}

\* ------------------------------------------------------------------------
\* parse_transactions followed by calculate_financials
\* ------------------------------------------------------------------------
Init ==
  /\ text \in Texts
  /\ pc = "summary"
  /\ idx = 1
  /\ scan = NoFields
  /\ summary = MkSummary(TRUE, NoFields)
  /\ transaction_lines = <<>>
  /\ raw_transactions = <<>>
  /\ previous_balance = None
  /\ transactions = <<>>
  /\ gpt_response = NoDict
  /\ result = NoResult
  /\ llm = NoCall
  /\ extracted = NoExtracted
  /\ response = NoResponse
  /\ header_or_footer = FALSE

\* extract_statement_summary, one line of the scan (lines 130-173)
SummaryStep ==
  /\ pc = "summary"
  /\ idx <= Len(text)
  /\ scan' = ScanLine(scan, text, idx)
  /\ idx' = idx + 1
  /\ UNCHANGED <<text, pc, summary, transaction_lines, raw_transactions,
                 previous_balance, transactions, gpt_response, result, llm,
                 extracted, response,
                 header_or_footer>>

\* extract_statement_summary, the fallbacks and the return (lines 175-217)
SummaryReturn ==
  /\ pc = "summary"
  /\ idx > Len(text)
  /\ scan' = FallbackHdfc(FallbackKeyword(scan, Flatten(text)), Flatten(text))
  /\ summary' = SummaryOf(scan')
  /\ pc' = "find"
  /\ UNCHANGED <<text, idx, transaction_lines, raw_transactions,
                 previous_balance, transactions, gpt_response, result, llm,
                 extracted, response,
                 header_or_footer>>

\* parse_transactions, lines 423-435
FindLines ==
  /\ pc = "find"
  /\ transaction_lines' = CandidateLines(text)
  /\ idx' = 1
  /\ pc' = "parse"
  /\ UNCHANGED <<text, scan, summary, raw_transactions, previous_balance,
                 transactions, gpt_response, result, llm, extracted, response,
                 header_or_footer>>

\* lines 452-454: the following line appended to the last parsed transaction
Stitch(raw, next_line) ==
  IF /\ next_line # <<>>
     /\ ~is_potential_transaction_line(next_line)
     /\ ~is_header_or_footer(next_line)
     /\ raw # <<>>
  THEN [raw EXCEPT ![Len(raw)].description = @ \o next_line]
  ELSE raw

\* parse_transactions, one iteration of the loop of lines 437-454
\* (pending_description is never set, lines 443-445 never run)
ParseStep ==
  /\ pc = "parse"
  /\ idx <= Len(transaction_lines)
  /\ LET line_num == transaction_lines[idx].num
         prev_line == IF line_num > 1 THEN text[line_num - 1] ELSE <<>>
         next_line == IF line_num < Len(text) THEN text[line_num + 1] ELSE <<>>
         parsed == parse_transaction_line(transaction_lines[idx].line, prev_line)
     IN raw_transactions' = Stitch(raw_transactions \o parsed, next_line)
  /\ idx' = idx + 1
  /\ UNCHANGED <<text, pc, scan, summary, transaction_lines, previous_balance,
                 transactions, gpt_response, result, llm, extracted, response,
                 header_or_footer>>

\* lines 456-458
BeginResolve ==
  /\ pc = "parse"
  /\ idx > Len(transaction_lines)
  /\ previous_balance' = IF summary.none THEN None ELSE summary.opening_balance
  /\ idx' = 1
  /\ pc' = "resolve"
  /\ UNCHANGED <<text, scan, summary, transaction_lines, raw_transactions,
                 transactions, gpt_response, result, llm, extracted, response,
                 header_or_footer>>

\* a variant that keeps comparing with the first known balance
ResolveStep_StaleBalance ==
  /\ pc = "resolve"
  /\ idx <= Len(raw_transactions)
  /\ transactions' =
       Append(transactions, FinalTxn(raw_transactions[idx], previous_balance))
  /\ raw_transactions' =
       [raw_transactions EXCEPT
          ![idx] = ResolvedRaw(raw_transactions[idx], previous_balance)]
  /\ previous_balance' = IF previous_balance = None
                         THEN raw_transactions[idx].closing_balance
                         ELSE previous_balance
  /\ idx' = idx + 1
  /\ UNCHANGED <<text, pc, scan, summary, transaction_lines, gpt_response,
                 result, llm, extracted, response, header_or_footer>>

\* one iteration of the balance-delta loop (lines 460-483)
ResolveStep ==
  /\ pc = "resolve"
  /\ idx <= Len(raw_transactions)
  /\ transactions' =
       Append(transactions, FinalTxn(raw_transactions[idx], previous_balance))
  /\ raw_transactions' =
       [raw_transactions EXCEPT
          ![idx] = ResolvedRaw(raw_transactions[idx], previous_balance)]
  /\ previous_balance' = raw_transactions[idx].closing_balance
  /\ idx' = idx + 1
  /\ UNCHANGED <<text, pc, scan, summary, transaction_lines, gpt_response,
                 result, llm, extracted, response,
                 header_or_footer>>

\* lines 485-499: parse_transactions returns
ReturnParsed ==
  /\ pc = "resolve"
  /\ idx > Len(raw_transactions)
  /\ gpt_response' = ParseResult(summary, transactions)
  /\ pc' = "parsed"
  /\ UNCHANGED <<text, idx, scan, summary, transaction_lines, raw_transactions,
                 previous_balance, transactions, result, llm, extracted,
                 response,
                 header_or_footer>>

\* calculate_financials applied to the dict at hand
Aggregate ==
  /\ pc = "parsed"
  /\ result' = calculate_financials(gpt_response)
  /\ pc' = "done"
  /\ UNCHANGED <<text, idx, scan, summary, transaction_lines, raw_transactions,
                 previous_balance, transactions, gpt_response, llm, extracted,
                 response,
                 header_or_footer>>

Next ==
  \/ SummaryStep
  \/ SummaryReturn
  \/ FindLines
  \/ ParseStep
  \/ BeginResolve
  \/ ResolveStep
  \/ ReturnParsed
  \/ Aggregate

Spec == Init /\ [][Next]_vars

\* ------------------------------------------------------------------------
\* calculate_financials on arbitrary transaction dicts
\* ------------------------------------------------------------------------
CalcTxn(amount, type, category) ==
  [date |-> DateTok("/", 1), description |-> <<Narration>>,
   category |-> category, amount |-> amount, type |-> type]

CalcTxns ==
  {CalcTxn(a, t, c) :
     a \in Values, t \in {"credit", "debit", "unknown"}, c \in {"food"}}
  \cup {CalcTxn(1, t, c) :
     t \in {"credit", "debit"}, c \in {"other", Missing, NoneStr}}
  \cup {CalcTxn(NonNumeric, "credit", "food")}

CalcInputs ==
  {[NoDict EXCEPT !.is_financial_statement = TRUE,
                  !.opening_balance = ob,
                  !.closing_balance = cb,
                  !.transactions = txns] :
     ob \in {None, MaxAmt}, cb \in {None, 1},
     txns \in SeqsUpTo(CalcTxns, MaxCalcTxns)}
  \cup {[NoDict EXCEPT !.transactions = txns] :
     txns \in SeqsUpTo(CalcTxns, 1)}

InitCalc ==
  /\ gpt_response \in CalcInputs
  /\ pc = "parsed"
  /\ text = <<<<>>>>
  /\ idx = 1
  /\ scan = NoFields
  /\ summary = MkSummary(TRUE, NoFields)
  /\ transaction_lines = <<>>
  /\ raw_transactions = <<>>
  /\ previous_balance = None
  /\ transactions = <<>>
  /\ result = NoResult
  /\ llm = NoCall
  /\ extracted = NoExtracted
  /\ response = NoResponse
  /\ header_or_footer = FALSE

NextCalc == Aggregate

SpecCalc == InitCalc /\ [][NextCalc]_vars

\* ------------------------------------------------------------------------
\* One /api/analyze request
\* ------------------------------------------------------------------------
\* transactions of a FinancialExtraction: positive amount, type and category
\* of the schema's enumerations
LLMTxns ==
  {CalcTxn(a, t, c) :
     a \in Values, t \in {"credit", "debit"}, c \in {"income", "food", "other"}}

Extractions ==
  {[is_financial_statement |-> f, opening_balance |-> ob,
    closing_balance |-> None, transactions |-> txns] :
     f \in BOOLEAN, ob \in {None, MaxAmt}, txns \in SeqsUpTo(LLMTxns, 2)}

Calls ==
  {[outcome |-> "ok", extraction |-> e] : e \in Extractions}
  \cup {[NoCall EXCEPT !.outcome = o] :
          o \in {"api_error", "refusal", "unparsable", "truncated"}}

InitApi ==
  /\ llm \in Calls
  /\ pc = "api"
  /\ text = <<<<>>>>
  /\ idx = 1
  /\ scan = NoFields
  /\ summary = MkSummary(TRUE, NoFields)
  /\ transaction_lines = <<>>
  /\ raw_transactions = <<>>
  /\ previous_balance = None
  /\ transactions = <<>>
  /\ gpt_response = NoDict
  /\ result = NoResult
  /\ extracted = NoExtracted
  /\ response = NoResponse
  /\ header_or_footer = FALSE

\* index.py line 175
ApiExtract ==
  /\ pc = "api"
  /\ extracted' = extract_financial_data(llm)
  /\ pc' = "api_extracted"
  /\ UNCHANGED <<text, idx, scan, summary, transaction_lines, raw_transactions,
                 previous_balance, transactions, gpt_response, result, llm,
                 response,
                 header_or_footer>>

\* index.py lines 177-210
ApiRespond ==
  /\ pc = "api_extracted"
  /\ response' = analyze_statement(extracted)
  /\ pc' = "api_done"
  /\ UNCHANGED <<text, idx, scan, summary, transaction_lines, raw_transactions,
                 previous_balance, transactions, gpt_response, result, llm,
                 extracted,
                 header_or_footer>>

NextApi == ApiExtract \/ ApiRespond

SpecApi == InitApi /\ [][NextApi]_vars

\* ------------------------------------------------------------------------
\* The line classifier on one line
\* ------------------------------------------------------------------------
ClassifyWords ==
  {"ATM WDL", "Opening Balance", "Closing Balance", "Total Debits",
   "Total Credits", "SALARY CREDIT", "Page", "Account Number", "UPI REF",
   "UPI BALANCE ENQ", "Statement Summary", "Account Summary"}

\* a narration without any keyword, 39 characters wide
Filler == WordTok("NEFT TRANSFER TO SAVINGS VIA MOBILE APP")

ClassifyAmounts ==
  {<<>>, <<AmtTok(0, "")>>, <<AmtTok(1, "")>>,
   <<AmtTok(1, "DR"), AmtTok(MaxAmt, "")>>}

\* what precedes the word, the word, what follows it, the amounts
ClassifyLines ==
  {pre \o <<WordTok(w)>> \o mid \o amts :
     pre \in {<<>>, <<DateTok("/", 1)>>, <<DateTok(".", 1)>>, <<Filler>>,
              <<DateTok("/", 1), Filler>>},
     w \in ClassifyWords,
     mid \in {<<>>, <<Filler>>, <<DateTok("/", 1)>>},
     amts \in ClassifyAmounts}
  \cup {<<>>, <<IntTok(1)>>, <<IntTok(1), WordTok("of"), IntTok(2)>>,
        <<WordTok("----")>>,
        <<IntTok(1), DateTok("/", 1), Narration, AmtTok(1, "")>>}

InitClassify ==
  /\ text \in {<<line>> : line \in ClassifyLines}
  /\ pc = "classify"
  /\ idx = 1
  /\ scan = NoFields
  /\ summary = MkSummary(TRUE, NoFields)
  /\ transaction_lines = <<>>
  /\ raw_transactions = <<>>
  /\ previous_balance = None
  /\ transactions = <<>>
  /\ gpt_response = NoDict
  /\ result = NoResult
  /\ llm = NoCall
  /\ extracted = NoExtracted
  /\ response = NoResponse
  /\ header_or_footer = FALSE

\* is_header_or_footer and find_transaction_lines applied to the line
Classify ==
  /\ pc = "classify"
  /\ header_or_footer' = is_header_or_footer(text[1])
  /\ transaction_lines' = find_transaction_lines(text)
  /\ pc' = "classified"
  /\ UNCHANGED <<text, idx, scan, summary, raw_transactions, previous_balance,
                 transactions, gpt_response, result, llm, extracted, response>>

NextClassify == Classify

SpecClassify == InitClassify /\ [][NextClassify]_vars

\* ------------------------------------------------------------------------
\* parse_transactions on statements with summary, continuation and noise
\* lines
\* ------------------------------------------------------------------------
\* lines of a summary section, and the six-field line
SummaryLines ==
  {<<WordTok("Opening Balance"), AmtTok(p, "")>> : p \in {0, 1, MaxAmt}}
  \cup {<<WordTok("Closing Balance"), AmtTok(MaxAmt, "")>>}
  \cup {<<WordTok("Total Debits"), AmtTok(a, "")>> : a \in {1, MaxAmt}}
  \cup {<<WordTok("Total Credits"), AmtTok(1, "")>>}
  \cup {<<WordTok("Total Debits"), AmtTok(1, ""),
          WordTok("Opening Balance"), AmtTok(MaxAmt, "")>>}
  \cup {<<AmtTok(MaxAmt, ""), IntTok(1), IntTok(1),
          AmtTok(MaxAmt, ""), AmtTok(MaxAmt, ""), AmtTok(1, "")>>}
  \cup {<<DateTok("/", 1), Narration, AmtTok(1, "")>>}

\* a narration row without date and amount
Continuation == WordTok("VIA MOBILE APP")

\* transaction lines with and without narration, a candidate that prints a
\* zero amount only, a continuation line and a page footer
StitchLines ==
  {<<DateTok("/", 1), Narration, AmtTok(1, "DR"), AmtTok(MaxAmt, "")>>,
   <<DateTok("/", 1), AmtTok(1, ""), AmtTok(1, "")>>,
   <<DateTok("/", 1), Narration, AmtTok(0, "")>>,
   <<Continuation>>,
   <<WordTok("Page")>>}

LayoutTexts ==
  (SeqsUpTo(SummaryLines, MaxTxnLines + 1)
   \cup SeqsUpTo(StitchLines, MaxTxnLines + 1)) \ {<<>>}

InitLayout ==
  /\ text \in LayoutTexts
  /\ pc = "summary"
  /\ idx = 1
  /\ scan = NoFields
  /\ summary = MkSummary(TRUE, NoFields)
  /\ transaction_lines = <<>>
  /\ raw_transactions = <<>>
  /\ previous_balance = None
  /\ transactions = <<>>
  /\ gpt_response = NoDict
  /\ result = NoResult
  /\ llm = NoCall
  /\ extracted = NoExtracted
  /\ response = NoResponse
  /\ header_or_footer = FALSE

SpecLayout == InitLayout /\ [][Next]_vars

\* ------------------------------------------------------------------------
\* Properties
\* ------------------------------------------------------------------------
IsAmtTok(t) == t.k = "amt"

\* the amounts printed on a line, zero columns included, date digits excluded
PrintedAmounts(line) == SelectSeq(line, IsAmtTok)

\* the candidate line yields a transaction
YieldsTxn(line) == parse_transaction_line(line, <<>>) # <<>>

\* position, in the transaction list, of the transaction of candidate k
TxnIndex(k) ==
  Cardinality({j \in 1..k : YieldsTxn(transaction_lines[j].line)})

\* the candidate line transaction i was parsed from
LineOfTxn(i) ==
  LET k == CHOOSE j \in 1..Len(transaction_lines) :
             YieldsTxn(transaction_lines[j].line) /\ TxnIndex(j) = i
  IN transaction_lines[k].line

Returned == pc \in {"parsed", "done"}

Out == gpt_response.transactions

\* the balance transaction i is compared with by the balance-delta pass
BalanceBefore(i) ==
  IF i = 1 THEN gpt_response.opening_balance ELSE Out[i - 1].closing_balance

\* C1: a candidate line printing a withdrawal column, a deposit column and a
\* trailing balance, exactly one of the two columns being 0.00, yields a
\* transaction whose amount is the non-zero column and whose direction is
\* debit for the withdrawal column and credit for the deposit column.
C1_ColumnFixesDirection ==
  Returned =>
    \A k \in 1..Len(transaction_lines) :
      LET cols == PrintedAmounts(transaction_lines[k].line) IN
      (/\ Len(cols) = 3
       /\ cols[3].v > 0
       /\ (cols[1].v = 0) # (cols[2].v = 0))
      => /\ YieldsTxn(transaction_lines[k].line)
         /\ Out[TxnIndex(k)].amount = cols[1].v + cols[2].v
         /\ Out[TxnIndex(k)].type =
              IF cols[1].v > 0 THEN "debit" ELSE "credit"

\* C2 as stated: only the first transaction, and only without an opening
\* balance, may have direction unknown.
C2_UnknownOnlyFirstWithoutOpening ==
  Returned =>
    \A i \in 1..Len(Out) :
      Out[i].type = "unknown"
      => (i = 1 /\ gpt_response.opening_balance = None)

\* C2 amended: a returned transaction has direction unknown only if it is
\* the first one and no opening balance was found, or if its trailing
\* balance equals the balance before it (the opening balance for the first
\* transaction, else the preceding transaction's trailing balance).
C2_UnknownOnlyWithoutDelta ==
  Returned =>
    \A i \in 1..Len(Out) :
      Out[i].type = "unknown"
      => \/ (i = 1 /\ gpt_response.opening_balance = None)
         \/ Out[i].closing_balance = BalanceBefore(i)

\* a later transaction is left unknown because the balance did not move
C2_Witness ==
  /\ Returned
  /\ \E i \in 2..Len(Out) :
       Out[i].type = "unknown" /\ Out[i].closing_balance = BalanceBefore(i)

\* the trailing balance of i follows from the one before by its amount
DeltaConsistent(i) ==
  /\ Out[i].type = "credit"
     => Out[i].closing_balance = Out[i - 1].closing_balance + Out[i].amount
  /\ Out[i].type = "debit"
     => Out[i].closing_balance = Out[i - 1].closing_balance - Out[i].amount

\* C3 as stated: every transaction after the first whose direction is
\* resolved moves the trailing balance by its amount, in its direction.
C3_BalanceDeltaConsistency ==
  Returned =>
    \A i \in 2..Len(Out) :
      Out[i].type \in {"credit", "debit"} => DeltaConsistent(i)

\* the amount of transaction i was not read from its line (the line holds
\* one non-zero amount match, the trailing balance)
AmountDerived(i) == Len(extract_all_amounts(LineOfTxn(i))) = 1

\* C3 amended: every transaction after the first whose amount was derived
\* from the balance delta, and whose direction is resolved, moves the
\* trailing balance by its amount, in its direction.
C3_DerivedDeltaConsistency ==
  Returned =>
    \A i \in 2..Len(Out) :
      (AmountDerived(i) /\ Out[i].type \in {"credit", "debit"})
      => DeltaConsistent(i)

\* a later transaction got a non-zero amount and a direction from the delta
C3_Witness ==
  /\ Returned
  /\ \E i \in 2..Len(Out) :
       /\ AmountDerived(i)
       /\ Out[i].type = "debit"
       /\ Out[i].amount > 0
       /\ Out[i].closing_balance = Out[i - 1].closing_balance - Out[i].amount

RECURSIVE SumAmounts(_, _)
\* the sum of the numeric amounts of the transactions of the given direction
SumAmounts(txns, type) ==
  IF txns = <<>> THEN 0
  ELSE (IF Head(txns).type = type /\ IsNumeric(Head(txns).amount)
        THEN Head(txns).amount ELSE 0)
       + SumAmounts(Tail(txns), type)

RECURSIVE SumValues(_)
\* sum(breakdown.values())
SumValues(bd) ==
  IF bd = <<>> THEN 0 ELSE Head(bd).v + SumValues(Tail(bd))

Succeeded == pc = "done" /\ result.outcome = "returned" /\ result.success

\* C4: transactions whose direction is neither credit nor debit count in
\* neither total (nor in a breakdown), and stay in the returned list and in
\* transactionCount.
C4_UnknownExcludedFromTotals ==
  (Succeeded /\ gpt_response.transactions # <<>>) =>
    /\ result.totalIncome = SumAmounts(gpt_response.transactions, "credit")
    /\ result.totalExpenses = SumAmounts(gpt_response.transactions, "debit")
    /\ SumValues(result.incomeBreakdown)
         = SumAmounts(gpt_response.transactions, "credit")
    /\ SumValues(result.categoryBreakdown)
         = SumAmounts(gpt_response.transactions, "debit")
    /\ result.transactions = gpt_response.transactions
    /\ result.transactionCount = Len(gpt_response.transactions)

\* no transaction of the list has a category assigned
Uncategorized(txns) ==
  \A i \in 1..Len(txns) : txns[i].category \in {Missing, NoneStr}

\* the breakdown a sum attributed to one category gives ({} for a zero sum
\* of no transactions)
OnlyCategory(bd, category, total) ==
  \/ bd = <<[k |-> category, v |-> total]>>
  \/ (bd = <<>> /\ total = 0)

\* C5: with no category assigned (key missing or None), the aggregation
\* completes and attributes credits to "income" and debits to "other".
C5_DefaultCategories ==
  (/\ pc = "done"
   /\ gpt_response.is_financial_statement
   /\ gpt_response.transactions # <<>>
   /\ Uncategorized(gpt_response.transactions)
   /\ \A i \in 1..Len(gpt_response.transactions) :
        gpt_response.transactions[i].type \in {"credit", "debit"})
  => /\ result.outcome = "returned"
     /\ result.success
     /\ OnlyCategory(result.incomeBreakdown, "income",
                     SumAmounts(gpt_response.transactions, "credit"))
     /\ OnlyCategory(result.categoryBreakdown, "other",
                     SumAmounts(gpt_response.transactions, "debit"))

\* C6: a failed LLM step still ends the request with a success response
\* carrying a financial summary.
C6_LLMFailureStillSucceeds ==
  (pc = "api_done" /\ llm.outcome # "ok")
  => /\ response.kind = "json"
     /\ response.success
     /\ response.has_data

\* C7: an empty transaction list gives success with zero totals, count 0
\* and both breakdowns present and empty.
C7_EmptyIsSuccess ==
  (pc = "done" /\ gpt_response.transactions = <<>>)
  => /\ result.outcome = "returned"
     /\ result.success
     /\ result.totalIncome = 0
     /\ result.totalExpenses = 0
     /\ result.netChange = 0
     /\ result.transactionCount = 0
     /\ {"categoryBreakdown", "incomeBreakdown"} \subseteq result.keys
     /\ result.categoryBreakdown = <<>>
     /\ result.incomeBreakdown = <<>>

\* C8: a candidate line with a date and exactly two non-zero amounts, the
\* first carrying a Cr/Dr suffix, yields one transaction with the first
\* amount as amount, the last as running balance and the direction of the
\* suffix, whatever the balance did.
C8_SuffixFixesDirection ==
  Returned =>
    \A k \in 1..Len(transaction_lines) :
      LET cols == PrintedAmounts(transaction_lines[k].line) IN
      (/\ Len(cols) = 2
       /\ cols[1].v > 0 /\ cols[2].v > 0
       /\ cols[1].s # "")
      => /\ YieldsTxn(transaction_lines[k].line)
         /\ Out[TxnIndex(k)].amount = cols[1].v
         /\ Out[TxnIndex(k)].closing_balance = cols[2].v
         /\ Out[TxnIndex(k)].type =
              IF cols[1].s = "CR" THEN "credit" ELSE "debit"

\* C9: a candidate line with a date and one trailing balance B only, the
\* balance P before it being known, yields amount |B - P| and direction
\* credit if B > P, debit if B < P.
C9_BalanceOnlyInference ==
  Returned =>
    \A k \in 1..Len(transaction_lines) :
      LET cols == PrintedAmounts(transaction_lines[k].line) IN
      (/\ Len(cols) = 1
       /\ cols[1].v > 0 /\ cols[1].s = ""
       /\ YieldsTxn(transaction_lines[k].line)
       /\ BalanceBefore(TxnIndex(k)) # None)
      => /\ Out[TxnIndex(k)].amount
              = Abs(cols[1].v - BalanceBefore(TxnIndex(k)))
         /\ (cols[1].v > BalanceBefore(TxnIndex(k))
               => Out[TxnIndex(k)].type = "credit")
         /\ (cols[1].v < BalanceBefore(TxnIndex(k))
               => Out[TxnIndex(k)].type = "debit")

\* C10: in a successful result for at least one transaction the values of
\* categoryBreakdown sum to totalExpenses and those of incomeBreakdown to
\* totalIncome, within one unit (0.01).
C10_BreakdownConservation ==
  (Succeeded /\ gpt_response.transactions # <<>>)
  => /\ Abs(SumValues(result.categoryBreakdown) - result.totalExpenses) <= 1
     /\ Abs(SumValues(result.incomeBreakdown) - result.totalIncome) <= 1

\* a successful aggregation of a mix holding a debit, an unknown-direction
\* and a skipped transaction
C10_Witness ==
  /\ Succeeded
  /\ \E i, j, k \in 1..Len(gpt_response.transactions) :
       /\ gpt_response.transactions[i].type = "unknown"
       /\ IsNumeric(gpt_response.transactions[i].amount)
       /\ gpt_response.transactions[j].amount = NonNumeric
       /\ gpt_response.transactions[k].type = "debit"
       /\ gpt_response.transactions[k].category
            = gpt_response.transactions[i].category
  /\ result.totalExpenses > MaxAmt

\* C11: a successful calculate_financials returns the provided opening and
\* closing balances when present; with an opening balance and no closing
\* balance, closingBalance = openingBalance + totalIncome - totalExpenses;
\* with neither, both are 0; netChange = totalIncome - totalExpenses.
C11_BalancesAndNetChange ==
  Succeeded =>
    LET ob == gpt_response.opening_balance
        cb == gpt_response.closing_balance
    IN /\ (ob # None => result.openingBalance = ob)
       /\ (cb # None => result.closingBalance = cb)
       /\ (ob # None /\ cb = None
             => result.closingBalance
                  = ob + result.totalIncome - result.totalExpenses)
       /\ (ob = None /\ cb = None
             => result.openingBalance = 0 /\ result.closingBalance = 0)
       /\ result.netChange = result.totalIncome - result.totalExpenses

NumericTxn(txn) == IsNumeric(txn.amount)

\* the dict without the transactions whose amount float() cannot convert
WithoutSkipped(g) == [g EXCEPT !.transactions = SelectSeq(@, NumericTxn)]

RECURSIVE SumNumeric(_)
\* the sum of the amounts float() converts
SumNumeric(txns) ==
  IF txns = <<>> THEN 0
  ELSE (IF NumericTxn(Head(txns)) THEN Head(txns).amount ELSE 0)
       + SumNumeric(Tail(txns))

\* C12: a transaction with a non-numeric amount adds nothing to the totals
\* and breakdowns, the others are aggregated as if it were absent, and the
\* call returns success wherever it does without that transaction.
C12_BadAmountSkipped ==
  (/\ pc = "done"
   /\ gpt_response.is_financial_statement
   /\ \E i \in 1..Len(gpt_response.transactions) :
        ~NumericTxn(gpt_response.transactions[i]))
  => LET other == calculate_financials(WithoutSkipped(gpt_response)) IN
     /\ result.outcome = other.outcome
     /\ other.outcome = "returned"
        => /\ result.success
           /\ result.totalIncome = other.totalIncome
           /\ result.totalExpenses = other.totalExpenses
           /\ result.categoryBreakdown = other.categoryBreakdown
           /\ result.incomeBreakdown = other.incomeBreakdown
           /\ result.totalIncome + result.totalExpenses
                = SumNumeric(gpt_response.transactions)

\* a skipped transaction between a counted credit and a counted debit
C12_Witness ==
  /\ Succeeded
  /\ Len(gpt_response.transactions) = 3
  /\ gpt_response.transactions[1].type = "credit"
  /\ NumericTxn(gpt_response.transactions[1])
  /\ ~NumericTxn(gpt_response.transactions[2])
  /\ gpt_response.transactions[3].type = "debit"
  /\ result.totalIncome > 0
  /\ result.totalExpenses > 0

\* C13: parse_transactions reports is_financial_statement exactly when its
\* transaction list is non-empty; the empty text gives FALSE and no
\* transaction.
C13_FinancialIffTransactions ==
  Returned =>
    /\ gpt_response.is_financial_statement <=> (Out # <<>>)
    /\ text = <<<<>>>>
         => (~gpt_response.is_financial_statement /\ Out = <<>>)

\* a text with a summary line and no transaction is returned as not financial
C13_Witness ==
  /\ Returned
  /\ gpt_response.opening_balance # None
  /\ Out = <<>>
  /\ ~gpt_response.is_financial_statement

\* the key a transaction is aggregated under (line 75)
CategoryKey(txn) ==
  Lower(IF txn.category = Missing THEN "other" ELSE txn.category)

\* positions of the counted transactions of one breakdown and category
SeenAt(txns, category, income) ==
  {i \in 1..Len(txns) :
     /\ NumericTxn(txns[i])
     /\ (txns[i].type = "credit") = income
     /\ CategoryKey(txns[i]) = category}

\* the breakdown is non-increasing, equal totals in first-seen order
OrderedBreakdown(bd, txns, income) ==
  \A i, j \in 1..Len(bd) :
    i < j
    => /\ bd[i].v >= bd[j].v
       /\ bd[i].v = bd[j].v
          => /\ SeenAt(txns, bd[i].k, income) # {}
             /\ SeenAt(txns, bd[j].k, income) # {}
             /\ Min(SeenAt(txns, bd[i].k, income))
                  < Min(SeenAt(txns, bd[j].k, income))

C15_AmountsNonNegative ==
  Returned => \A i \in 1..Len(Out) : Out[i].amount >= 0

\* an unresolved first transaction followed by one whose amount comes from a
\* falling balance
C15_Witness ==
  /\ Returned
  /\ Len(Out) = 2
  /\ gpt_response.opening_balance = None
  /\ AmountDerived(1) /\ AmountDerived(2)
  /\ Out[1].amount = 0
  /\ Out[2].amount > 0
  /\ Out[2].closing_balance < Out[1].closing_balance

\* the phrases of the summary class
SummaryWords ==
  {"Opening Balance", "Closing Balance", "Total Debits", "Total Credits",
   "Statement Summary", "Account Summary"}

HasSummaryKeyword(line) ==
  \E i \in 1..Len(line) : line[i].k = "word" /\ line[i].w \in SummaryWords

\* C16: a line containing a summary keyword is never returned by
\* find_transaction_lines, whatever its length, wherever the keyword sits and
\* whether or not it holds a date and a non-zero amount.
C16_SummaryLineNeverCandidate ==
  (pc = "classified" /\ HasSummaryKeyword(text[1]))
  => transaction_lines = <<>>

\* a header/footer keyword occurs in the line
HasKeyword(line) ==
  \E kw \in skip_keywords \cup always_skip_patterns : Contains(line, kw)

\* C17 as stated: a line is noise exactly when it holds a header/footer
\* keyword and either has no amount match or is shorter than 50 characters.
C17_NoiseIffKeywordAndShortOrNoAmount ==
  pc = "classified"
  => (header_or_footer
        <=> (HasKeyword(text[1])
             /\ (~HasAmountMatch(text[1]) \/ LineLen(text[1]) < 50)))

\* the keyword test of the classifier applies to the line: it starts with a
\* skip keyword, or holds one and is shorter than 50 characters
KeywordApplies(line) ==
  \/ \E kw \in skip_keywords : StartsWith(line, kw)
  \/ (LineLen(line) < 50 /\ \E kw \in skip_keywords : Contains(line, kw))

\* C17 amended: a line is noise exactly when it is empty, or holds an
\* always-skipped account-header pattern, or the keyword test applies and the
\* line has no amount match or holds "total" or "balance", or it consists of
\* numbers or of special characters only.  A short keyword line that carries
\* an amount and neither "total" nor "balance" is not noise.
C17_NoiseCondition ==
  pc = "classified"
  => LET line == text[1] IN
     header_or_footer
       <=> \/ line = <<>>
           \/ \E p \in always_skip_patterns : Contains(line, p)
           \/ /\ KeywordApplies(line)
              /\ \/ \A i \in 1..Len(line) : ~IsAmountMatch(line[i])
                 \/ Contains(line, "total")
                 \/ Contains(line, "balance")
           \/ IsJustNumbers(line)
           \/ IsJustSpecial(line)

\* a short line holding a keyword, a date and an amount is kept as a
\* transaction candidate
C17_Witness ==
  /\ pc = "classified"
  /\ LineLen(text[1]) < 50
  /\ Contains(text[1], "ref")
  /\ HasDate(text[1])
  /\ extract_all_amounts(text[1]) # <<>>
  /\ ~header_or_footer
  /\ transaction_lines # <<>>

\* C18: a candidate line printing three non-zero amounts (withdrawal,
\* deposit, balance) gets its amount from the balance delta whenever the
\* balance before it is known: amount = |trailing balance - balance before|.
C18_ThreeAmountsResolvedByDelta ==
  Returned =>
    \A k \in 1..Len(transaction_lines) :
      LET cols == PrintedAmounts(transaction_lines[k].line) IN
      (/\ Len(cols) = 3
       /\ cols[1].v > 0 /\ cols[2].v > 0 /\ cols[3].v > 0
       /\ YieldsTxn(transaction_lines[k].line)
       /\ BalanceBefore(TxnIndex(k)) # None)
      => Out[TxnIndex(k)].amount
           = Abs(cols[3].v - BalanceBefore(TxnIndex(k)))

\* C19: without an opening balance, a first transaction whose line prints a
\* trailing balance only is returned with direction unknown and with its
\* amount unset (None), no number standing in for it.
C19_FirstUnresolvedLeftUnset ==
  (/\ Returned
   /\ gpt_response.opening_balance = None
   /\ Out # <<>>
   /\ Len(PrintedAmounts(LineOfTxn(1))) = 1
   /\ PrintedAmounts(LineOfTxn(1))[1].s = "")
  => /\ Out[1].type = "unknown"
     /\ Out[1].amount = None

\* the direction the balances B (after) and P (before) give
DirectionOfDelta(B, P) ==
  IF B > P THEN "credit" ELSE IF B < P THEN "debit" ELSE "unknown"

\* the line of transaction i gives its direction itself (a Cr/Dr suffix on
\* the amount before the balance)
DirectionOnLine(i) ==
  LET amounts == extract_all_amounts(LineOfTxn(i)) IN
  Len(amounts) = 2 /\ amounts[1].s # ""

\* C20: in the balance-delta pass previous_balance, after transaction i is
\* processed, is that transaction's trailing balance, resolved or not; so an
\* inferred direction or amount of transaction i+1 is a function of the
\* trailing balances of i and i+1 alone.
C20_PreviousBalanceAdvances ==
  /\ (pc = "resolve" /\ idx > 1)
     => previous_balance = transactions[idx - 1].closing_balance
  /\ Returned =>
       \A i \in 2..Len(Out) :
         /\ AmountDerived(i)
            => Out[i].amount
                 = Abs(Out[i].closing_balance - Out[i - 1].closing_balance)
         /\ ~DirectionOnLine(i)
            => Out[i].type = DirectionOfDelta(Out[i].closing_balance,
                                              Out[i - 1].closing_balance)

\* the second transaction is inferred from the first one's trailing balance
\* where the opening balance would give another amount and direction
C20_Witness ==
  /\ Returned
  /\ Len(Out) = 2
  /\ gpt_response.opening_balance # None
  /\ AmountDerived(2)
  /\ Out[2].closing_balance = gpt_response.opening_balance
  /\ Out[2].closing_balance < Out[1].closing_balance
  /\ Out[2].type = "debit"
  /\ Out[2].amount = Out[1].closing_balance - Out[2].closing_balance

SummaryFields ==
  {"opening_balance", "closing_balance", "total_debits", "total_credits"}

\* C21: during extract_statement_summary a field that holds a value keeps
\* it: no later keyword line and neither fallback assigns it again.
C21_FieldsNeverReassigned ==
  [][\A f \in SummaryFields : scan[f] # None => scan'[f] = scan[f]]_vars

\* the first of two opening-balance lines with different amounts is kept
C21_Witness ==
  /\ pc = "find"
  /\ \E i, j \in 1..Len(text) :
       /\ i < j
       /\ text[i] = <<WordTok("Opening Balance"), AmtTok(1, "")>>
       /\ text[j] = <<WordTok("Opening Balance"), AmtTok(MaxAmt, "")>>
  /\ scan.opening_balance = 1

\* C22: extract_statement_summary always returns a StatementSummary whose
\* fields are those resolved during the scan (None when unresolved), and
\* parse_transactions returns the totals found even when no opening and no
\* closing balance was found.
C22_SummaryAlwaysReturned ==
  /\ pc \in {"find", "parse", "resolve", "parsed", "done"}
     => /\ ~summary.none
        /\ \A f \in SummaryFields : summary[f] = scan[f]
  /\ Returned
     => /\ gpt_response.total_debits = scan.total_debits
        /\ gpt_response.total_credits = scan.total_credits

\* C25: with at least one transaction, parse_transactions reports the
\* trailing balance of the last transaction as closing balance, whatever
\* closing balance the summary holds; without transactions it reports the
\* closing balance of the summary.
C25_ClosingFromLastTransaction ==
  Returned =>
    gpt_response.closing_balance =
      IF Out # <<>> THEN Out[Len(Out)].closing_balance
      ELSE IF summary.none THEN None
      ELSE summary.closing_balance

\* the summary holds another closing balance than the last transaction
C25_Witness ==
  /\ Returned
  /\ Out # <<>>
  /\ ~summary.none
  /\ summary.closing_balance # None
  /\ summary.closing_balance # Out[Len(Out)].closing_balance
  /\ gpt_response.closing_balance = Out[Len(Out)].closing_balance

\* a line that is neither empty, nor a transaction candidate, nor noise
IsContinuation(line) ==
  /\ line # <<>>
  /\ ~is_potential_transaction_line(line)
  /\ ~is_header_or_footer(line)

\* line m is the only such line of the text
OnlyContinuation(m) ==
  /\ IsContinuation(text[m])
  /\ \A n \in 1..Len(text) : IsContinuation(text[n]) => n = m

\* the description of the transaction holds the text of the line
DescriptionHolds(txn, line) ==
  \E p \in 1..Len(txn.description) : txn.description[p] = line[1]

\* the description of the transaction ends with the text of the line
DescriptionEndsWith(txn, line) ==
  /\ Len(txn.description) >= Len(line)
  /\ SubSeq(txn.description, Len(txn.description) - Len(line) + 1,
            Len(txn.description)) = line

\* C23: when the line after candidate line L is neither a candidate nor
\* noise, its text is appended to the description of the transaction parsed
\* from L, and never to a transaction parsed from an earlier line, also when
\* L gave no transaction.
C23_StitchOntoOwnTransaction ==
  Returned =>
    \A k \in 1..Len(transaction_lines) :
      LET n == transaction_lines[k].num IN
      (n < Len(text) /\ OnlyContinuation(n + 1))
      => /\ YieldsTxn(transaction_lines[k].line)
            => DescriptionEndsWith(Out[TxnIndex(k)], text[n + 1])
         /\ \A i \in 1..Len(Out) :
              (\/ i < TxnIndex(k)
               \/ (i = TxnIndex(k) /\ ~YieldsTxn(transaction_lines[k].line)))
              => ~DescriptionHolds(Out[i], text[n + 1])

\* C24: a line that is neither a candidate nor noise adds its text to the
\* description of at most one returned transaction.
C24_ContinuationUsedOnce ==
  Returned =>
    \A m \in 1..Len(text) :
      OnlyContinuation(m)
      => Cardinality({i \in 1..Len(Out) : DescriptionHolds(Out[i], text[m])})
           <= 1

====
